---- MODULE Spec2Model ----
(***************************************************************************)
(* The thumbnail composition engine of Creator-mind-PLUS:                  *)
(*   src/components/optimizer/CanvasWorkspace.tsx  (CanvasWorkspace)       *)
(*   src/App.tsx                                   (VideoOptimizer, the    *)
(*                                                  host of the workspace) *)
(* The state is the React state of the two components; one action is one   *)
(* event handler, run to completion (event dispatch is single-threaded).   *)
(*                                                                         *)
(* Values.  A layer id is a tuple: <<"t", n>> is the string `t${n}`,       *)
(* <<"t_", n, i>> is `t_${n}_${i}`, and <<>> is the empty string ''.       *)
(* The optional flags isLocked / isHidden are read by the code only for    *)
(* their truthiness, so an absent flag is FALSE.  Coordinates are          *)
(* integers.  Texts are opaque strings; the Arabic literals of the source  *)
(* are written in ASCII here (the comment next to each gives the original).*)
(* lineHeight, highlightScale and opacity are in tenths (12 is 1.2, 10 is  *)
(* 1), so that they are integers; highlightWords is a sequence of strings  *)
(* (of words given by their characters where words are taken apart, in     *)
(* SpecRender).  After a handler that changes the selection, or a new      *)
(* suggestion list, the auto-fill effect of the next render is part of the *)
(* same action.                                                            *)
(***************************************************************************)
EXTENDS Integers, Sequences, FiniteSets, TLC

\* ------------------------------------------------------------------ bounds
\* The number of events (handler runs) explored from the initial state.
MaxEvents == 3
\* The same, for the runs of hide/show, undo and redo that fill the past stack.
MaxHistoryEvents == 23
\* The same, for the applications of a template given by its definition.
MaxTemplateEvents == 1
\* The same, for the requests for a background image and their completions.
MaxImageEvents == 20
\* The same, for the highlight toggles of a layer with a given text.
MaxRenderEvents == 3

\* ------------------------------------------------------- program constants
HistoryCap == 20          \* .slice(-20)
CenterX == 640            \* 1280 / 2
CenterY == 360            \* 720 / 2
SNAP_THRESHOLD == 15
HitRadius == 150          \* CanvasWorkspace.handleMouseDown: dist < 150
BridgeHitRadius == 200    \* VideoOptimizer.handleMouseDown:  dist < 200
NudgeStep == 1            \* e.shiftKey ? 10 : 1
NudgeStepShift == 10

NoId == <<>>              \* the empty string '' of selectedTextId
Null == "null"            \* null, of generatedImage and of a request's result

VARIABLES
    textObjects,      \* VideoOptimizer state, prop of CanvasWorkspace: the layer sequence
    selectedTextId,   \* VideoOptimizer state, prop of CanvasWorkspace: the selection
    history,          \* CanvasWorkspace state: the past stack
    future,           \* CanvasWorkspace state: the future stack
    dragOffset,       \* CanvasWorkspace state
    snapLines,        \* CanvasWorkspace state: the set of axes that are snapped
    parentDragOffset, \* VideoOptimizer state (its own dragOffset)
    hostProps,        \* whether the host passes the optional handler props
    now,              \* the last value Date.now() returned
    pointerDown,      \* environment: a pointer-down is outstanding
    suggestedHooks,   \* VideoOptimizer state (hooks), prop of CanvasWorkspace
    generatedImage,   \* VideoOptimizer state: the background reference
    genLoading,       \* VideoOptimizer state: an image request is in flight
    budget,           \* number of events a behaviour explores
    events,           \* number of events handled so far
    last,             \* the event handled last
    before,           \* the layers, selection and stacks the last event started from
    base, nOps, nUndo \* bookkeeping of a run of mutating operations and the undos after it

vars == <<textObjects, selectedTextId, history, future, dragOffset, snapLines,
          parentDragOffset, hostProps, now, pointerDown, suggestedHooks,
          generatedImage, genLoading, budget, events, last, before, base, nOps,
          nUndo>>

\* ---------------------------------------------------------------- helpers
Abs(n) == IF n < 0 THEN -n ELSE n

\* Array.prototype.slice(-n): the last n elements.
LastN(s, n) == IF Len(s) <= n THEN s ELSE SubSeq(s, Len(s) - n + 1, Len(s))

\* Array.prototype.slice(0, -1)
Front(s) == SubSeq(s, 1, Len(s) - 1)

\* Array.prototype.findIndex, 1-based; 0 when nothing matches.
FindIndex(objs, id) ==
    IF \E i \in 1..Len(objs) : objs[i].id = id
    THEN CHOOSE i \in 1..Len(objs) :
            objs[i].id = id /\ \A j \in 1..(i - 1) : objs[j].id # id
    ELSE 0

\* Array.prototype.filter
RECURSIVE FilterOut(_, _)
FilterOut(objs, id) ==
    IF objs = <<>> THEN <<>>
    ELSE IF Head(objs).id = id THEN FilterOut(Tail(objs), id)
         ELSE <<Head(objs)>> \o FilterOut(Tail(objs), id)

Ids(objs) == {objs[i].id : i \in 1..Len(objs)}

\* The TextObject literal of handleAddTextLayer (zIndex, which nothing reads,
\* is left out).
TextObject(id, text, x, y, rotation) ==
    [id |-> id, text |-> text, x |-> x, y |-> y, rotation |-> rotation,
     isDragging |-> FALSE, isLocked |-> FALSE, isHidden |-> FALSE,
     fontSize |-> 100, fontFamily |-> "Cairo", color |-> "#ffffff",
     strokeColor |-> "#000000", strokeWidth |-> 4,
     shadowColor |-> "rgba(0,0,0,0.8)", shadowBlur |-> 10,
     highlightWords |-> <<>>, highlightColor |-> "#fbbf24", highlightScale |-> 10,
     lineHeight |-> 12, opacity |-> 10, align |-> "center"]

\* JSON.parse(JSON.stringify(textObjects)): a fresh array of fresh objects with
\* the same enumerable fields.  Every value a layer field takes here (finite
\* numbers, booleans, strings) survives the round trip.
JSONCopy(objs) ==
    [i \in 1..Len(objs) |-> [f \in DOMAIN objs[i] |-> objs[i][f]]]

\* ------------------------------------------------------- History Manager
\* pushHistory without setFuture([]).
pushHistoryKeepsFuture(hist, fut, objs) ==
    [history |-> LastN(Append(hist, JSONCopy(objs)), HistoryCap),
     future  |-> fut]

\* pushHistory without .slice(-20).
pushHistoryUncapped(hist, fut, objs) ==
    [history |-> Append(hist, JSONCopy(objs)),
     future  |-> <<>>]

\* pushHistory: setHistory(prev => [...prev, copy].slice(-20)); setFuture([]).
pushHistory(hist, fut, objs) ==
    [history |-> LastN(Append(hist, JSONCopy(objs)), HistoryCap),
     future  |-> <<>>]

\* handleUndo without setHistory(prev => prev.slice(0, -1)).
handleUndoKeepsPast(objs, hist, fut) ==
    IF Len(hist) = 0
    THEN [textObjects |-> objs, history |-> hist, future |-> fut]
    ELSE [textObjects |-> hist[Len(hist)],
          history     |-> hist,
          future      |-> <<objs>> \o fut]

\* handleUndo without `if (history.length === 0) return`: the popped snapshot
\* of an empty stack is no layer sequence at all.
handleUndoUnguarded(objs, hist, fut) ==
    IF Len(hist) = 0
    THEN [textObjects |-> <<>>, history |-> <<>>, future |-> <<objs>> \o fut]
    ELSE [textObjects |-> hist[Len(hist)],
          history     |-> Front(hist),
          future      |-> <<objs>> \o fut]

\* handleUndo, as a function of the three pieces of state it reads and writes.
handleUndo(objs, hist, fut) ==
    IF Len(hist) = 0
    THEN [textObjects |-> objs, history |-> hist, future |-> fut]
    ELSE [textObjects |-> hist[Len(hist)],
          history     |-> Front(hist),
          future      |-> <<objs>> \o fut]

\* handleRedo without setHistory(prev => [...prev, textObjects]).
handleRedoNoPast(objs, hist, fut) ==
    IF Len(fut) = 0
    THEN [textObjects |-> objs, history |-> hist, future |-> fut]
    ELSE [textObjects |-> fut[1],
          history     |-> hist,
          future      |-> Tail(fut)]

\* handleRedo
handleRedo(objs, hist, fut) ==
    IF Len(fut) = 0
    THEN [textObjects |-> objs, history |-> hist, future |-> fut]
    ELSE [textObjects |-> fut[1],
          history     |-> Append(hist, objs),
          future      |-> Tail(fut)]

\* ------------------------------------------------------------ hit-testing
\* Math.sqrt(dx^2 + dy^2) < r, on integers.
Within(obj, mx, my, r) ==
    (mx - obj.x) * (mx - obj.x) + (my - obj.y) * (my - obj.y) < r * r

\* CanvasWorkspace.handleMouseDown's loop: from the last layer down, skipping
\* hidden and locked layers, the first layer within 150; 0 when the loop ends.
hitTest(objs, mx, my) ==
    LET cand == {i \in 1..Len(objs) :
                    /\ ~(objs[i].isHidden \/ objs[i].isLocked)
                    /\ Within(objs[i], mx, my, HitRadius)}
    IN  IF cand = {} THEN 0 ELSE CHOOSE i \in cand : \A j \in cand : j <= i

\* VideoOptimizer.handleMouseDown's loop: from the last layer down, the first
\* layer within 200, whatever its flags; 0 when the loop ends.
bridgeHitTest(objs, mx, my) ==
    LET cand == {i \in 1..Len(objs) : Within(objs[i], mx, my, BridgeHitRadius)}
    IN  IF cand = {} THEN 0 ELSE CHOOSE i \in cand : \A j \in cand : j <= i

\* prev.map(t => t.id === id ? { ...t, isDragging: true } : t)
markDragging(objs, id) ==
    [i \in 1..Len(objs) |->
        IF objs[i].id = id THEN [objs[i] EXCEPT !.isDragging = TRUE] ELSE objs[i]]

\* prev.map(t => t.id === selectedTextId ? { ...t, isDragging: false } : t)
clearDraggingSelected(objs) ==
    [i \in 1..Len(objs) |->
        IF objs[i].id = selectedTextId THEN [objs[i] EXCEPT !.isDragging = FALSE]
                                       ELSE objs[i]]

\* prev.map(t => ({ ...t, isDragging: false }))
clearDragging(objs) ==
    [i \in 1..Len(objs) |-> [objs[i] EXCEPT !.isDragging = FALSE]]

\* prev.map(t => t.id === id ? { ...t, x: nx, y: ny } : t)
moveTo(objs, id, nx, ny) ==
    [i \in 1..Len(objs) |->
        IF objs[i].id = id THEN [objs[i] EXCEPT !.x = nx, !.y = ny] ELSE objs[i]]

\* prev.map(t => t.id === id ? { ...t, [key]: value } : t)
setField(objs, id, key, value) ==
    [i \in 1..Len(objs) |->
        IF objs[i].id = id THEN [objs[i] EXCEPT ![key] = value] ELSE objs[i]]

\* prev.map(t => t.id === id ? { ...t, isHidden: !t.isHidden } : t)
toggleHidden(objs, id) ==
    [i \in 1..Len(objs) |->
        IF objs[i].id = id THEN [objs[i] EXCEPT !.isHidden = ~objs[i].isHidden]
        ELSE objs[i]]

\* prev.map(t => t.id === id ? { ...t, isLocked: !t.isLocked } : t)
toggleLock(objs, id) ==
    [i \in 1..Len(objs) |->
        IF objs[i].id = id THEN [objs[i] EXCEPT !.isLocked = ~objs[i].isLocked]
        ELSE objs[i]]

\* onMoveLayer's array, once idx is known to be a position of the array.
moveLayer(objs, idx, dir) ==
    IF dir = "up" /\ idx < Len(objs)
    THEN [objs EXCEPT ![idx] = objs[idx + 1], ![idx + 1] = objs[idx]]
    ELSE IF dir = "down" /\ idx > 1
         THEN [objs EXCEPT ![idx] = objs[idx - 1], ![idx - 1] = objs[idx]]
         ELSE objs

\* ---------------------------------------------------------------- snapping
\* handleMouseMove, Snap Logic: one axis.
snapped(v, center) == Abs(v - center) < SNAP_THRESHOLD
snapAxis(v, center) == IF snapped(v, center) THEN center ELSE v

\* The object selectedTextId names, as textObjects.find gives it (0: undefined).
activeIndex == FindIndex(textObjects, selectedTextId)

\* {selectedObj && !selectedObj.isLocked && ( ...Text Editor Controls... )}
editorShown == activeIndex # 0 /\ ~textObjects[activeIndex].isLocked

\* --------------------------------------------------------------- templates
\* TEMPLATES: each object is a Partial<TextObject>, a record that holds only
\* the fields the literal gives.  Texts: "First product" is the source's
\* "المنتج الأول", "Second product" "المنتج الثاني", "Top 5" "أفضل 5",
\* "Phones in 2025" "هواتف في 2025", "Impossible !!" "مستحيل !!".
TEMPLATES ==
    << [id |-> "t_vs", objects |->
          << [text |-> "VS", x |-> 640, y |-> 360, fontSize |-> 120,
              color |-> "#ffffff", strokeColor |-> "#000000", strokeWidth |-> 8,
              highlightWords |-> <<>>, rotation |-> 0],
             [text |-> "First product", x |-> 300, y |-> 360, fontSize |-> 60,
              color |-> "#fbbf24", strokeColor |-> "#000000", strokeWidth |-> 4,
              rotation |-> -5],
             [text |-> "Second product", x |-> 980, y |-> 360, fontSize |-> 60,
              color |-> "#fbbf24", strokeColor |-> "#000000", strokeWidth |-> 4,
              rotation |-> 5] >>],
       [id |-> "t_top", objects |->
          << [text |-> "Top 5", x |-> 640, y |-> 200, fontSize |-> 100,
              color |-> "#ffffff", strokeColor |-> "#2563eb", strokeWidth |-> 4,
              highlightWords |-> <<"5">>, highlightColor |-> "#fbbf24",
              highlightScale |-> 12],
             [text |-> "Phones in 2025", x |-> 640, y |-> 450, fontSize |-> 70,
              color |-> "#e5e7eb", strokeColor |-> "#000000", strokeWidth |-> 3] >>],
       [id |-> "t_react", objects |->
          << [text |-> "Impossible !!", x |-> 640, y |-> 600, fontSize |-> 110,
              color |-> "#facc15", strokeColor |-> "#000000", strokeWidth |-> 6,
              rotation |-> 0, highlightWords |-> <<"!!">>,
              highlightColor |-> "#ef4444"] >>] >>

\* obj.key || dflt, for a number and for a string field of a partial object.
orNumber(obj, key, dflt) ==
    IF key \in DOMAIN obj THEN (IF obj[key] # 0 THEN obj[key] ELSE dflt) ELSE dflt
orString(obj, key, dflt) ==
    IF key \in DOMAIN obj THEN (IF obj[key] # "" THEN obj[key] ELSE dflt) ELSE dflt

\* `t_${Date.now()}_0`: the id without the index of the object.
templateIdNoIndex(t, i) == <<"t_", t, 0>>

\* `t_${Date.now()}_${i}`, i the 0-based index of tpl.objects.map
templateId(t, i) == <<"t_", t, i>>

\* `t${Date.now()}`
newLayerId(t) == <<"t", t>>

\* handleApplyTemplate: newObjs, built at time t.  "nass" is the source's 'نص'.
\* The spread ...obj comes first, so isDragging stays what the partial object
\* gives (absent: falsy); isLocked and isHidden are overwritten with false.
newObjs(tpl, t) ==
    [k \in 1..Len(tpl.objects) |->
        LET obj == tpl.objects[k] IN
        [isDragging     |-> IF "isDragging" \in DOMAIN obj THEN obj.isDragging ELSE FALSE,
         id             |-> templateId(t, k - 1),
         fontFamily     |-> "Cairo",
         shadowBlur     |-> 10,
         shadowColor    |-> "rgba(0,0,0,0.8)",
         isLocked       |-> FALSE,
         isHidden       |-> FALSE,
         align          |-> "center",
         text           |-> orString(obj, "text", "nass"),
         x              |-> orNumber(obj, "x", CenterX),
         y              |-> orNumber(obj, "y", CenterY),
         fontSize       |-> orNumber(obj, "fontSize", 60),
         color          |-> orString(obj, "color", "#fff"),
         strokeColor    |-> orString(obj, "strokeColor", "#000"),
         strokeWidth    |-> orNumber(obj, "strokeWidth", 2),
         highlightWords |-> IF "highlightWords" \in DOMAIN obj
                            THEN obj.highlightWords ELSE <<>>,
         highlightColor |-> orString(obj, "highlightColor", "#fbbf24"),
         highlightScale |-> orNumber(obj, "highlightScale", 11),
         lineHeight     |-> 12,
         opacity        |-> 10,
         rotation       |-> orNumber(obj, "rotation", 0)]]

\* ------------------------------------------------------------ inputs
\* Pointer positions, in logical surface coordinates.
Pointers ==
    { <<640, 360>>,    \* the surface centre
      <<628, 374>>,    \* 12 and 14 from the centre lines
      <<625, 345>>,    \* exactly 15 from both centre lines
      <<626, 346>>,    \* 14 from both
      <<624, 376>>,    \* 16 from both
      <<620, 360>>,    \* 20 from the vertical centre line
      <<800, 360>>,    \* 160 from the centre: inside 200, outside 150
      <<1000, 100>> }  \* far from every layer

Texts == {"Test"}
Rotations == {45}
\* The range inputs of the property panel.
SliderKeys == {"fontSize", "rotation", "lineHeight", "highlightScale"}
\* A key and a value an editor of the property panel passes.
EditorInputs == {<<"rotation", 45>>, <<"rotation", 90>>, <<"color", "#ff0000">>}
Directions == {"up", "down"}
ArrowKeys == {"ArrowUp", "ArrowDown", "ArrowLeft", "ArrowRight"}

\* ------------------------------------------------------------ bookkeeping
\* One more event handled, and which.
\* op: the handler; id: the layer it names or finds; px, py: the pointer (px
\* is the template for ApplyTemplate, 1 for an arrow key with shift held and
\* 0 without, 1 for up and -1 for down for onMoveLayer, the key for
\* UpdateTextProps, with py 1 for the first change event of an interaction and
\* 0 for a later one of the same slider gesture); pushed: whether it called
\* pushHistory.
Logged(op, id, px, py, pushed) ==
    /\ events < budget
    /\ events' = events + 1
    /\ budget' = budget
    /\ last' = [op |-> op, id |-> id, px |-> px, py |-> py, pushed |-> pushed]
    /\ before' = [textObjects |-> textObjects, selectedTextId |-> selectedTextId,
                  history |-> history, future |-> future,
                  generatedImage |-> generatedImage]

\* An event of the canvas, the keyboard or the panels: it writes neither the
\* suggestion list nor the image state of the host.
Handled(op, id, px, py, pushed) ==
    /\ Logged(op, id, px, py, pushed)
    /\ UNCHANGED <<suggestedHooks, generatedImage, genLoading>>

\* Any other event ends the run.
RunEnds == base' = <<>> /\ nOps' = 0 /\ nUndo' = 0

\* A mutating operation of the run: the first one records the scene before it.
\* An operation in the middle of a pointer gesture is not part of a run.
RunOp ==
    IF pointerDown
    THEN RunEnds
    ELSE IF nUndo # 0 \/ nOps = 0
         THEN /\ base' = textObjects
              /\ nOps' = 1
              /\ nUndo' = 0
         ELSE /\ base' = base
              /\ nOps' = nOps + 1
              /\ nUndo' = 0

\* An Undo call after the run.
RunUndo ==
    IF ~pointerDown /\ nOps > 0 /\ nUndo < nOps
    THEN /\ nUndo' = nUndo + 1
         /\ UNCHANGED <<base, nOps>>
    ELSE /\ base' = <<>>
         /\ nOps' = 0
         /\ nUndo' = 0

\* The moves and the pointer-up of the drag gesture that is the run's last operation.
RunGesture ==
    IF pointerDown /\ nOps > 0 /\ nUndo = 0
    THEN UNCHANGED <<base, nOps, nUndo>>
    ELSE RunEnds

\* ------------------------------------------------------------------ state
progVars == <<textObjects, selectedTextId, history, future, dragOffset, snapLines,
              parentDragOffset>>

\* VideoOptimizer's useState initial values and CanvasWorkspace's.  The text
\* "Catchy title" stands for the source's "عنوان جذاب\nللفيديو".
InitScene(objs, host, n) ==
    /\ textObjects = objs
    /\ selectedTextId = <<"t", 1>>
    /\ history = <<>>
    /\ future = <<>>
    /\ dragOffset = <<0, 0>>
    /\ snapLines = {}
    /\ parentDragOffset = <<0, 0>>
    /\ hostProps = host
    /\ now = 1
    /\ pointerDown = FALSE
    /\ budget = n
    /\ events = 0
    /\ last = [op |-> "init", id |-> NoId, px |-> 0, py |-> 0, pushed |-> FALSE]
    /\ before = [textObjects |-> <<>>, selectedTextId |-> NoId,
                 history |-> <<>>, future |-> <<>>, generatedImage |-> Null]
    /\ suggestedHooks = <<>>
    /\ generatedImage = Null
    /\ genLoading = FALSE
    /\ base = <<>>
    /\ nOps = 0
    /\ nUndo = 0

InitState(host, n) ==
    InitScene(<< [TextObject(<<"t", 1>>, "Catchy title", 640, 360, 0)
                     EXCEPT !.fontSize = 80] >>, host, n)

\* The application: VideoOptimizer renders CanvasWorkspace with onMouseDown,
\* onMouseMove, onMouseUp, onUpdateText, onToggleHighlight and onAddTextLayer.
Init == InitState(TRUE, MaxEvents)

\* CanvasWorkspace rendered without its optional props.
InitWorkspace == InitState(FALSE, MaxEvents)

\* The application, for a longer run of fewer kinds of event.
InitHistory == InitState(TRUE, MaxHistoryEvents)

\* ------------------------------------------------------ auto-fill effect
\* The texts of the model that currentText.includes("عنوان جذاب") ||
\* currentText.includes("نص") || currentText.trim() === "" holds of: "Catchy
\* title" stands for "عنوان جذاب\nللفيديو" and "nass" for "نص".
PlaceholderTexts == {"Catchy title", "nass", ""}

isPlaceholder(currentText) == currentText \in PlaceholderTexts

\* [...suggestedHooks].sort((a,b) => b.score - a.score)[0]: the first of the
\* hooks with the highest score (the sort is stable).
bestHook(hooks) ==
    hooks[CHOOSE k \in 1..Len(hooks) :
              /\ \A j \in 1..Len(hooks) : hooks[j].score <= hooks[k].score
              /\ \A j \in 1..(k - 1) : hooks[j].score < hooks[k].score]

\* The body of the effect, without the test of the text.
autoFillAnyText(objs, sel, hooks) ==
    IF Len(hooks) > 0 /\ sel # NoId
    THEN setField(objs, sel, "text", bestHook(hooks).hook)
    ELSE objs

\* The body of useEffect(() => {...}, [suggestedHooks, selectedTextId]): the
\* layer sequence it leaves.  With the host's onUpdateText and without it the
\* write is the same map over the layers.
autoFill(objs, sel, hooks) ==
    IF Len(hooks) > 0
    THEN LET i == FindIndex(objs, sel)
             currentText == IF i = 0 THEN "" ELSE objs[i].text
         IN  IF isPlaceholder(currentText) /\ sel # NoId
             THEN setField(objs, sel, "text", bestHook(hooks).hook)
             ELSE objs
    ELSE objs

\* The layer sequence after the render that follows a handler which leaves
\* objs and the selection sel: the effect runs when the selection changed.
afterRender(objs, sel) ==
    IF sel # selectedTextId THEN autoFill(objs, sel, suggestedHooks) ELSE objs

\* ------------------------------------------------- pointer event handlers
\* CanvasWorkspace.handleMouseDown
handleMouseDown(mx, my) ==
    LET i == hitTest(textObjects, mx, my) IN
    IF i # 0
    THEN LET obj == textObjects[i]
             h == pushHistory(history, future, textObjects)
         IN /\ history' = h.history
            /\ future' = h.future
            /\ selectedTextId' = obj.id
            /\ textObjects' = afterRender(markDragging(textObjects, obj.id), obj.id)
            /\ dragOffset' = <<mx - obj.x, my - obj.y>>
            /\ UNCHANGED <<snapLines, parentDragOffset>>
    ELSE /\ selectedTextId' = NoId
         /\ UNCHANGED <<textObjects, history, future, dragOffset, snapLines,
                        parentDragOffset>>

\* VideoOptimizer.handleMouseDown, the host's onMouseDown
bridgeMouseDown(mx, my) ==
    LET i == bridgeHitTest(textObjects, mx, my) IN
    IF i # 0
    THEN LET obj == textObjects[i]
         IN /\ selectedTextId' = obj.id
            /\ textObjects' = afterRender(markDragging(textObjects, obj.id), obj.id)
            /\ parentDragOffset' = <<mx - obj.x, my - obj.y>>
            /\ UNCHANGED <<history, future, dragOffset, snapLines>>
    ELSE /\ selectedTextId' = NoId
         /\ UNCHANGED <<textObjects, history, future, dragOffset, snapLines,
                        parentDragOffset>>

\* CanvasWorkspace.handleMouseMove
handleMouseMove(mx, my) ==
    LET a == activeIndex IN
    IF a = 0 \/ ~textObjects[a].isDragging \/ textObjects[a].isLocked
    THEN UNCHANGED progVars
    ELSE LET newX == mx - dragOffset[1]
             newY == my - dragOffset[2]
         IN /\ snapLines' = (IF snapped(newX, CenterX) THEN {"x"} ELSE {})
                              \cup (IF snapped(newY, CenterY) THEN {"y"} ELSE {})
            /\ textObjects' = moveTo(textObjects, selectedTextId,
                                     snapAxis(newX, CenterX), snapAxis(newY, CenterY))
            /\ UNCHANGED <<selectedTextId, history, future, dragOffset, parentDragOffset>>

\* VideoOptimizer.handleMouseMove, the host's onMouseMove
bridgeMouseMove(mx, my) ==
    LET a == activeIndex IN
    IF a = 0 \/ ~textObjects[a].isDragging
    THEN UNCHANGED progVars
    ELSE /\ textObjects' = moveTo(textObjects, selectedTextId,
                                  mx - parentDragOffset[1], my - parentDragOffset[2])
         /\ UNCHANGED <<selectedTextId, history, future, dragOffset, snapLines,
                        parentDragOffset>>

\* CanvasWorkspace.handleMouseUp
handleMouseUp ==
    /\ textObjects' = clearDragging(textObjects)
    /\ snapLines' = {}
    /\ UNCHANGED <<selectedTextId, history, future, dragOffset, parentDragOffset>>

\* The host's onMouseUp
bridgeMouseUp ==
    /\ textObjects' = clearDragging(textObjects)
    /\ UNCHANGED <<selectedTextId, history, future, dragOffset, snapLines,
                   parentDragOffset>>

\* The layer a pointer-down at (mx, my) hits, by the handler the canvas is wired to.
hitId(mx, my) ==
    LET i == IF hostProps THEN bridgeHitTest(textObjects, mx, my)
                          ELSE hitTest(textObjects, mx, my)
    IN  IF i = 0 THEN NoId ELSE textObjects[i].id

\* <canvas onMouseDown={props.onMouseDown || handleMouseDown} ...>
MouseDown ==
    \E p \in Pointers :
        /\ Handled("MouseDown", hitId(p[1], p[2]), p[1], p[2],
                   ~hostProps /\ hitId(p[1], p[2]) # NoId)
        /\ IF hostProps THEN bridgeMouseDown(p[1], p[2]) ELSE handleMouseDown(p[1], p[2])
        /\ pointerDown' = TRUE
        /\ IF hitId(p[1], p[2]) # NoId THEN RunOp ELSE RunEnds
        /\ UNCHANGED <<hostProps, now>>

\* <canvas onMouseMove={props.onMouseMove || handleMouseMove} ...>
MouseMove ==
    \E p \in Pointers :
        /\ Handled("MouseMove", selectedTextId, p[1], p[2], FALSE)
        /\ IF hostProps THEN bridgeMouseMove(p[1], p[2]) ELSE handleMouseMove(p[1], p[2])
        /\ RunGesture
        /\ UNCHANGED <<hostProps, now, pointerDown>>

\* <canvas onMouseUp={props.onMouseUp || handleMouseUp} ...>
MouseUp ==
    /\ Handled("MouseUp", NoId, 0, 0, FALSE)
    /\ IF hostProps THEN bridgeMouseUp ELSE handleMouseUp
    /\ pointerDown' = FALSE
    /\ RunGesture
    /\ UNCHANGED <<hostProps, now>>

\* <canvas onMouseLeave={props.onMouseLeave || handleMouseUp} ...>: the host
\* passes no onMouseLeave.
MouseLeave ==
    /\ Handled("MouseLeave", NoId, 0, 0, FALSE)
    /\ handleMouseUp
    /\ pointerDown' = FALSE
    /\ RunEnds
    /\ UNCHANGED <<hostProps, now>>

\* ------------------------------------------------------------ History keys
\* handleUndo: Ctrl+Z, or the toolbar button.
Undo ==
    LET r == handleUndo(textObjects, history, future) IN
    /\ Handled("Undo", NoId, 0, 0, FALSE)
    /\ textObjects' = r.textObjects
    /\ history' = r.history
    /\ future' = r.future
    /\ RunUndo
    /\ UNCHANGED <<selectedTextId, dragOffset, snapLines, parentDragOffset,
                   hostProps, now, pointerDown>>

\* handleRedo: Ctrl+Y, or the toolbar button.
Redo ==
    LET r == handleRedo(textObjects, history, future) IN
    /\ Handled("Redo", NoId, 0, 0, FALSE)
    /\ textObjects' = r.textObjects
    /\ history' = r.history
    /\ future' = r.future
    /\ RunEnds
    /\ UNCHANGED <<selectedTextId, dragOffset, snapLines, parentDragOffset,
                   hostProps, now, pointerDown>>

\* ------------------------------------------------------- updateObject
\* updateObject without `if (recordHistory)`: every call records a snapshot.
updateObjectAlwaysRecords(id, key, value, recordHistory) ==
    /\ LET h == pushHistory(history, future, textObjects)
       IN  history' = h.history /\ future' = h.future
    /\ textObjects' = setField(textObjects, id, key, value)

\* updateObject(id, key, value, recordHistory)
updateObject(id, key, value, recordHistory) ==
    /\ IF recordHistory
       THEN LET h == pushHistory(history, future, textObjects)
            IN  history' = h.history /\ future' = h.future
       ELSE UNCHANGED <<history, future>>
    /\ textObjects' = setField(textObjects, id, key, value)

\* ------------------------------------------------------- other key presses
\* handleKeyDown, e.key === 'Escape' (the full-screen flag is presentation
\* state and is not part of the model).
Escape ==
    /\ Handled("Escape", NoId, 0, 0, FALSE)
    /\ selectedTextId' = NoId
    /\ RunEnds
    /\ UNCHANGED <<textObjects, history, future, dragOffset, snapLines,
                   parentDragOffset, hostProps, now, pointerDown>>

\* handleKeyDown, the four arrow keys: updateObject(..., false) on the selected
\* object when there is one.
ArrowKey ==
    \E key \in ArrowKeys, shift \in BOOLEAN :
        LET moveAmount == IF shift THEN NudgeStepShift ELSE NudgeStep
            a == activeIndex
        IN  /\ Handled(key, selectedTextId, IF shift THEN 1 ELSE 0, 0, FALSE)
            /\ IF selectedTextId # NoId /\ a # 0
               THEN CASE key = "ArrowUp" ->
                            updateObject(selectedTextId, "y", textObjects[a].y - moveAmount, FALSE)
                      [] key = "ArrowDown" ->
                            updateObject(selectedTextId, "y", textObjects[a].y + moveAmount, FALSE)
                      [] key = "ArrowLeft" ->
                            updateObject(selectedTextId, "x", textObjects[a].x - moveAmount, FALSE)
                      [] key = "ArrowRight" ->
                            updateObject(selectedTextId, "x", textObjects[a].x + moveAmount, FALSE)
               ELSE UNCHANGED <<textObjects, history, future>>
            /\ RunEnds
            /\ UNCHANGED <<selectedTextId, dragOffset, snapLines, parentDragOffset,
                           hostProps, now, pointerDown>>

\* handleKeyDown, Delete / Backspace
KeyDelete ==
    LET a == activeIndex
        h == pushHistory(history, future, textObjects)
    IN  /\ Handled("KeyDelete", selectedTextId, 0, 0, selectedTextId # NoId /\ a # 0)
        /\ IF selectedTextId # NoId /\ a # 0
           THEN /\ history' = h.history
                /\ future' = h.future
                /\ textObjects' = FilterOut(textObjects, selectedTextId)
                /\ selectedTextId' = NoId
                /\ RunOp
           ELSE /\ UNCHANGED <<textObjects, selectedTextId, history, future>>
                /\ RunEnds
        /\ UNCHANGED <<dragOffset, snapLines, parentDragOffset, hostProps, now,
                       pointerDown>>

\* --------------------------------------------------------- property panel
\* handleUpdateTextProps(key, value), called by the editors of the property
\* panel, which is rendered only while editorShown.
\* VideoOptimizer's onUpdateText prop
onUpdateText(k, v) ==
    /\ textObjects' = setField(textObjects, selectedTextId, k, v)
    /\ UNCHANGED <<history, future>>

\* handleUpdateTextProps(key, value)
handleUpdateTextProps(key, value) ==
    IF selectedTextId = NoId
    THEN UNCHANGED <<textObjects, history, future>>
    ELSE IF hostProps
         THEN onUpdateText(key, value)
         ELSE updateObject(selectedTextId, key, value, TRUE)

\* A change event of one of the editors: the rotation slider and the colour
\* input stand for the range inputs and the other inputs.  starts: the user
\* began a new interaction with the editor; otherwise the event is the next
\* change event of the slider gesture the previous event belonged to.  An
\* input fires a change event only with a value that differs from the shown one.
UpdateTextProps ==
    \E kv \in EditorInputs, starts \in BOOLEAN :
        /\ editorShown
        /\ textObjects[activeIndex][kv[1]] # kv[2]
        /\ starts \/ (/\ kv[1] \in SliderKeys
                       /\ last.op = "UpdateTextProps"
                       /\ last.px = kv[1]
                       /\ last.id = selectedTextId)
        /\ Handled("UpdateTextProps", selectedTextId, kv[1], IF starts THEN 1 ELSE 0,
                   ~hostProps)
        /\ handleUpdateTextProps(kv[1], kv[2])
        /\ RunOp
        /\ UNCHANGED <<selectedTextId, dragOffset, snapLines, parentDragOffset,
                       hostProps, now, pointerDown>>

\* The two quick-centre buttons: updateObject(selectedTextId, 'x', 640) and
\* updateObject(selectedTextId, 'y', 360).
QuickCenter ==
    \E axis \in {"x", "y"} :
        /\ editorShown
        /\ Handled("QuickCenter", selectedTextId, 0, 0, TRUE)
        /\ updateObject(selectedTextId, axis, IF axis = "x" THEN CenterX ELSE CenterY, TRUE)
        /\ RunOp
        /\ UNCHANGED <<selectedTextId, dragOffset, snapLines, parentDragOffset,
                       hostProps, now, pointerDown>>

\* ------------------------------------------------------------ layer panel
\* LayerPanel is not among the source files; its callbacks are.  The panel
\* lists the layers it is given, and calls a callback with the id of a row.
panelRows == Ids(textObjects)

\* The rows whose layer the panel lets the user select: locked layers are
\* never selectable, and a selection references a visible layer.
panelSelectable ==
    {textObjects[i].id : i \in {j \in 1..Len(textObjects) :
                                  ~textObjects[j].isLocked /\ ~textObjects[j].isHidden}}

\* onSelect={onSelectText}
PanelSelect ==
    \E id \in panelSelectable :
        /\ Handled("PanelSelect", id, 0, 0, FALSE)
        /\ selectedTextId' = id
        /\ textObjects' = afterRender(textObjects, id)
        /\ RunEnds
        /\ UNCHANGED <<history, future, dragOffset, snapLines,
                       parentDragOffset, hostProps, now, pointerDown>>

\* onToggleHidden={(id) => { pushHistory(); setTextObjects(...) }}
onToggleHidden(id) ==
    LET h == pushHistory(history, future, textObjects) IN
    /\ Handled("ToggleHidden", id, 0, 0, TRUE)
    /\ history' = h.history
    /\ future' = h.future
    /\ textObjects' = toggleHidden(textObjects, id)
    /\ RunOp
    /\ UNCHANGED <<selectedTextId, dragOffset, snapLines, parentDragOffset,
                   hostProps, now, pointerDown>>

\* The panel's hide/show button of a row.
ToggleHidden == \E id \in panelRows : onToggleHidden(id)

\* onToggleLock={(id) => { pushHistory(); setTextObjects(...) }}
onToggleLock(id) ==
    LET h == pushHistory(history, future, textObjects) IN
    /\ Handled("ToggleLock", id, 0, 0, TRUE)
    /\ history' = h.history
    /\ future' = h.future
    /\ textObjects' = toggleLock(textObjects, id)
    /\ RunOp
    /\ UNCHANGED <<selectedTextId, dragOffset, snapLines, parentDragOffset,
                   hostProps, now, pointerDown>>

\* The panel's lock button of a row.
ToggleLock == \E id \in panelRows : onToggleLock(id)

\* onDelete={(id) => { pushHistory(); setTextObjects(filter); onSelectText(''); }}
onDelete(id) ==
    LET h == pushHistory(history, future, textObjects) IN
    /\ Handled("DeleteLayer", id, 0, 0, TRUE)
    /\ history' = h.history
    /\ future' = h.future
    /\ textObjects' = FilterOut(textObjects, id)
    /\ selectedTextId' = NoId
    /\ RunOp
    /\ UNCHANGED <<dragOffset, snapLines, parentDragOffset, hostProps, now,
                   pointerDown>>

\* The panel's delete button of a row.
DeleteLayer == \E id \in panelRows : onDelete(id)

\* onMoveLayer={(id, dir) => { idx = findIndex; if (idx === -1) return;
\*                              pushHistory(); swap; setTextObjects(newArr); }}
onMoveLayer(id, dir) ==
    LET idx == FindIndex(textObjects, id)
        h == pushHistory(history, future, textObjects)
    IN  /\ Handled("MoveLayer", id, IF dir = "up" THEN 1 ELSE -1, 0, idx # 0)
        /\ IF idx = 0
           THEN UNCHANGED <<textObjects, history, future>>
           ELSE /\ history' = h.history
                /\ future' = h.future
                /\ textObjects' = moveLayer(textObjects, idx, dir)
        /\ RunOp
        /\ UNCHANGED <<selectedTextId, dragOffset, snapLines, parentDragOffset,
                       hostProps, now, pointerDown>>

\* The panel's move-up and move-down buttons of a row.
MoveLayer == \E id \in panelRows, dir \in Directions : onMoveLayer(id, dir)

\* ------------------------------------------------------ templates, layers
\* Date.now() in the handler of a later user event reads a later millisecond.
clockRead == now + 1

\* handleApplyTemplate without the test of window.confirm's answer.
handleApplyTemplateUnasked(tpl, confirmed) ==
    LET h == pushHistory(history, future, textObjects)
        objs == newObjs(tpl, clockRead)
    IN  /\ Handled("ApplyTemplate", NoId, tpl, 0, confirmed)
        /\ history' = h.history
        /\ future' = h.future
        /\ textObjects' = IF Len(objs) > 0 THEN afterRender(objs, objs[1].id) ELSE objs
        /\ selectedTextId' = IF Len(objs) > 0 THEN objs[1].id ELSE selectedTextId
        /\ now' = clockRead
        /\ RunOp
        /\ UNCHANGED <<dragOffset, snapLines, parentDragOffset, hostProps, pointerDown>>

\* handleApplyTemplate(tpl), with the answer window.confirm gives.
handleApplyTemplate(tpl, confirmed) ==
    LET h == pushHistory(history, future, textObjects)
        objs == newObjs(tpl, clockRead)
    IN  /\ Handled("ApplyTemplate", NoId, tpl, 0, confirmed)
        /\ IF confirmed
           THEN /\ history' = h.history
                /\ future' = h.future
                /\ textObjects' = IF Len(objs) > 0 THEN afterRender(objs, objs[1].id)
                                                 ELSE objs
                /\ selectedTextId' = IF Len(objs) > 0 THEN objs[1].id ELSE selectedTextId
                /\ now' = clockRead
                /\ RunOp
           ELSE /\ UNCHANGED <<textObjects, selectedTextId, history, future, now>>
                /\ RunEnds
        /\ UNCHANGED <<dragOffset, snapLines, parentDragOffset, hostProps, pointerDown>>

\* {TEMPLATES.map(t => <button onClick={() => handleApplyTemplate(t)}>)}
ApplyTemplate ==
    \E k \in 1..Len(TEMPLATES), confirmed \in BOOLEAN :
        handleApplyTemplate(TEMPLATES[k], confirmed)

\* CanvasWorkspace.handleAddTextLayer(text): the host's onAddTextLayer when it
\* is given (VideoOptimizer.handleAddTextLayer), its own body otherwise.
AddTextLayer ==
    \E text \in Texts :
        LET newObj == TextObject(newLayerId(clockRead), text, CenterX, CenterY, 0)
            h == pushHistory(history, future, textObjects)
        IN  /\ Handled("AddTextLayer", newObj.id, 0, 0, ~hostProps)
            /\ IF hostProps
               THEN UNCHANGED <<history, future>>
               ELSE history' = h.history /\ future' = h.future
            /\ textObjects' = afterRender(Append(textObjects, newObj), newObj.id)
            /\ selectedTextId' = newObj.id
            /\ now' = clockRead
            /\ RunOp
            /\ UNCHANGED <<dragOffset, snapLines, parentDragOffset, hostProps, pointerDown>>

\* -------------------------------------------------------- highlight words
\* Where words are taken apart a text is the sequence of its lines
\* (text.split('\n')), a line the sequence of its words (line.split(' ')) and a
\* word the sequence of its characters.  "QM" stands for the Arabic question
\* mark, "O/" and "Y:" for the letters O with stroke and Y with diaeresis.
PunctuationClass == {".", ",", "!", "QM"}           \* CanvasWorkspace: /[.,!؟]/g
HostPunctuationClass == {".", ",", "!", "O/", "Y:"} \* App.tsx 728: /[.,!ØŸ]/g
Whitespace == {" ", "TAB"}

\* String.prototype.trim
RECURSIVE trim(_)
trim(w) ==
    IF w = <<>> THEN w
    ELSE IF Head(w) \in Whitespace THEN trim(Tail(w))
    ELSE IF w[Len(w)] \in Whitespace THEN trim(Front(w))
    ELSE w

\* w.trim().replace(/[.,!؟]/g, ''): every character of the class is removed.
cleanW(w) == SelectSeq(trim(w), LAMBDA c : c \notin PunctuationClass)

\* w.trim().replace(/[.,!ØŸ]/g, ''), of the host's onToggleHighlight
hostCleanW(w) == SelectSeq(trim(w), LAMBDA c : c \notin HostPunctuationClass)

\* Array.prototype.includes
includes(arr, x) == \E k \in 1..Len(arr) : arr[k] = x

\* isHigh ? highlightWords.filter(x => x !== cw) : [...highlightWords, cw]
toggled(highlightWords, cw) ==
    IF includes(highlightWords, cw)
    THEN SelectSeq(highlightWords, LAMBDA x : x # cw)
    ELSE Append(highlightWords, cw)

\* ctx.measureText(s).width with the font at `size`: every character as wide
\* as the font size.  Sizes and widths are in tenths of a pixel.
measureText(s, size) == Len(s) * size

\* draw: wordMetrics of one word of a line of obj.
wordMetrics(obj, w) ==
    LET isHigh == includes(obj.highlightWords, cleanW(w))
        currentSize == IF isHigh THEN obj.fontSize * obj.highlightScale
                                 ELSE obj.fontSize * 10
    IN  [word |-> w, width |-> measureText(Append(w, " "), currentSize),
         size |-> currentSize, isHigh |-> isHigh]

\* The sum of the widths of the first k words of the line.
RECURSIVE widthOf(_, _, _)
widthOf(obj, line, k) ==
    IF k = 0 THEN 0 ELSE widthOf(obj, line, k - 1) + wordMetrics(obj, line[k]).width

\* draw: wordMetrics.forEach(m => { ...fillText(m.word, drawX, lineY); drawX +=
\* m.width }): for each word of the line its size, its fill and the pen before
\* and after it, counted from the start of the line.
drawLine(obj, line) ==
    [k \in 1..Len(line) |->
        LET m == wordMetrics(obj, line[k])
        IN  [word |-> m.word, size |-> m.size,
             fillStyle |-> IF m.isHigh THEN obj.highlightColor ELSE obj.color,
             drawX |-> widthOf(obj, line, k - 1),
             drawXAfter |-> widthOf(obj, line, k)]]

\* VideoOptimizer's onToggleHighlight prop
onToggleHighlight(w) ==
    LET i == activeIndex IN
    IF i # 0
    THEN /\ textObjects' = setField(textObjects, selectedTextId, "highlightWords",
                                    toggled(textObjects[i].highlightWords, hostCleanW(w)))
         /\ UNCHANGED <<history, future>>
    ELSE UNCHANGED <<textObjects, history, future>>

\* The words the editor shows as buttons:
\* selectedObj.text.split(/[\s\n]+/).filter(w => w.length > 0)
editorWords ==
    LET text == textObjects[activeIndex].text
        all == UNION {{text[l][k] : k \in 1..Len(text[l])} : l \in 1..Len(text)}
    IN  {w \in all : Len(w) > 0}

\* The onClick of a word button of the highlight section.
ToggleHighlight ==
    /\ editorShown
    /\ \E word \in editorWords :
          /\ Handled("ToggleHighlight", selectedTextId, word, 0, ~hostProps)
          /\ IF hostProps
             THEN onToggleHighlight(word)
             ELSE handleUpdateTextProps("highlightWords",
                      toggled(textObjects[activeIndex].highlightWords, cleanW(word)))
          /\ RunOp
          /\ UNCHANGED <<selectedTextId, dragOffset, snapLines, parentDragOffset,
                         hostProps, now, pointerDown>>

\* ------------------------------------------------------ host: suggestions
\* The suggestion lists the analysis and the regeneration of hooks deliver.
HookLists ==
    { << [hook |-> "Hook A", score |-> 50], [hook |-> "Hook B", score |-> 90] >> }

\* setHooks(res.thumbnailHooks || []) and setHooks(res) of VideoOptimizer, and
\* the auto-fill effect of CanvasWorkspace that the new list triggers.
SetHooks ==
    \E hs \in HookLists :
        /\ Logged("SetHooks", selectedTextId, 0, 0, FALSE)
        /\ suggestedHooks' = hs
        /\ textObjects' = autoFill(textObjects, selectedTextId, hs)
        /\ RunEnds
        /\ UNCHANGED <<selectedTextId, history, future, dragOffset, snapLines,
                       parentDragOffset, hostProps, now, pointerDown,
                       generatedImage, genLoading>>

\* ------------------------------------------------------------ host: image
\* What generateThumbnailImage resolves to: null, or a data URL.  The empty
\* string is a result the test of handleGenerateImage also covers.
ImageResults == {Null, "", "data:image/jpeg;base64,A", "data:image/jpeg;base64,B"}

\* if(b64) setGeneratedImage(b64), without the test.
imageAfterUnguarded(cur, b64) == b64

\* if(b64) setGeneratedImage(b64): the background reference afterwards.
imageAfter(cur, b64) == IF b64 \notin {Null, ""} THEN b64 ELSE cur

\* draw: if (generatedImage) { the image, cover-fitted } else { the gradient }
background(img) == IF img \notin {Null, ""} THEN img ELSE "gradient"

canvasVars == <<textObjects, selectedTextId, history, future, dragOffset, snapLines,
                parentDragOffset, hostProps, now, pointerDown, suggestedHooks>>

\* handleGenClick -> handleGenerateImage up to its await; the button is
\* disabled while genLoading.
GenClick ==
    /\ ~genLoading
    /\ Logged("GenClick", NoId, Null, 0, FALSE)
    /\ genLoading' = TRUE
    /\ RunEnds
    /\ UNCHANGED generatedImage
    /\ UNCHANGED canvasVars

\* handleGenerateImage after its await: the request resolved to b64.
GenCompletes ==
    \E b64 \in ImageResults :
        /\ genLoading
        /\ Logged("GenCompletes", NoId, b64, 0, FALSE)
        /\ generatedImage' = imageAfter(generatedImage, b64)
        /\ genLoading' = FALSE
        /\ RunEnds
        /\ UNCHANGED canvasVars

\* ------------------------------------------------------------------- specs
Next ==
    \/ MouseDown
    \/ MouseMove
    \/ MouseUp
    \/ MouseLeave
    \/ Undo
    \/ Redo
    \/ Escape
    \/ ArrowKey
    \/ KeyDelete
    \/ UpdateTextProps
    \/ QuickCenter
    \/ PanelSelect
    \/ ToggleHidden
    \/ ToggleLock
    \/ DeleteLayer
    \/ MoveLayer
    \/ ApplyTemplate
    \/ AddTextLayer
    \/ SetHooks

\* The application.
Spec == Init /\ [][Next]_vars

\* CanvasWorkspace on its own handlers.
SpecWorkspace == InitWorkspace /\ [][Next]_vars

\* Hiding and showing a layer, undoing and redoing, for long enough to fill
\* the past stack.
NextHistory ==
    \/ ToggleHidden
    \/ Undo
    \/ Redo

SpecHistory == InitHistory /\ [][NextHistory]_vars

\* Requests for a background image and their results.
NextImage ==
    \/ GenClick
    \/ GenCompletes

InitImage == InitState(TRUE, MaxImageEvents)

SpecImage == InitImage /\ [][NextImage]_vars

\* Texts typed into the textarea of the editor, of one line of two words, and
\* values of the highlight-scale slider (1.0 and 1.5).
RenderWords ==
    { <<"a">>, <<"a", "!">>, <<"3", ".", "5">>, <<"3", "5">>, <<"a", "QM">> }
RenderTexts == { << <<w1, w2>> >> : w1 \in RenderWords, w2 \in RenderWords }
RenderScales == {10, 15}

\* The application with one layer whose text and highlight scale the user has set.
InitRender ==
    \E text \in RenderTexts, scale \in RenderScales :
        InitScene(<< [TextObject(<<"t", 1>>, text, 640, 360, 0)
                         EXCEPT !.fontSize = 80, !.highlightScale = scale] >>,
                  TRUE, MaxRenderEvents)

NextRender ==
    \/ ToggleHighlight
    \/ Undo

\* Toggling the highlight of the words of a layer, and how it is drawn.
SpecRender == InitRender /\ [][NextRender]_vars

\* ------------------------------------------- templates, by definition
\* handleApplyTemplate(tpl: CanvasTemplate) takes any template; the objects of
\* a CanvasTemplate are Partial<TextObject>, any subset of the fields.  Two
\* definitions of one object, and every subset of their fields.
SampleDefs ==
    { [text |-> "Sale", x |-> 300, fontFamily |-> "Arial", shadowBlur |-> 4,
       opacity |-> 5, lineHeight |-> 20, isLocked |-> TRUE, isHidden |-> TRUE,
       align |-> "left"],
      [text |-> "", x |-> 0, fontFamily |-> "Arial", shadowBlur |-> 4,
       opacity |-> 5, lineHeight |-> 20, isLocked |-> TRUE, isHidden |-> TRUE,
       align |-> "left"] }

TemplateKeys == {"text", "x", "fontFamily", "shadowBlur", "opacity", "lineHeight",
                 "isLocked", "isHidden", "align"}

\* A partial object: only the fields of keys.
Partial(def, keys) == [f \in keys |-> def[f]]

TemplateInputs ==
    { [id |-> "t_custom", objects |-> << Partial(def, keys) >>] :
          def \in SampleDefs, keys \in SUBSET TemplateKeys }

\* handleApplyTemplate(tpl), confirmed.
ApplyGivenTemplate == \E tpl \in TemplateInputs : handleApplyTemplate(tpl, TRUE)

NextTemplates ==
    \/ ApplyGivenTemplate
    \/ Undo

InitTemplates == InitState(TRUE, MaxTemplateEvents)

\* A template given by its definition, applied to the initial scene.
SpecTemplates == InitTemplates /\ [][NextTemplates]_vars

\* ------------------------------------------------ the operations, by id
\* updateObject and the callbacks handed to LayerPanel take the id of a layer
\* as their argument.  `t0` is an id that no layer has: Date.now() is never 0.
UnknownId == <<"t", 0>>
CallIds == Ids(textObjects) \cup {UnknownId}

\* updateObject(id, 'rotation', value, recordHistory)
CallUpdateObject ==
    \E id \in CallIds, value \in Rotations, recordHistory \in BOOLEAN :
        /\ Handled("updateObject", id, 0, 0, recordHistory)
        /\ updateObject(id, "rotation", value, recordHistory)
        /\ RunOp
        /\ UNCHANGED <<selectedTextId, dragOffset, snapLines, parentDragOffset,
                       hostProps, now, pointerDown>>

CallToggleHidden == \E id \in CallIds : onToggleHidden(id)
CallToggleLock == \E id \in CallIds : onToggleLock(id)
CallDelete == \E id \in CallIds : onDelete(id)
CallMoveLayer == \E id \in CallIds, dir \in Directions : onMoveLayer(id, dir)

NextCallbacks ==
    \/ CallUpdateObject
    \/ CallToggleHidden
    \/ CallToggleLock
    \/ CallDelete
    \/ CallMoveLayer
    \/ AddTextLayer
    \/ Undo

\* The operations called with any id, of a layer or not.
SpecCallbacks == Init /\ [][NextCallbacks]_vars

\* ------------------------------------------------------------- rendering
\* draw: textObjects.forEach(obj => { if (obj.isHidden) return; ... }), the
\* layers that are painted, in paint order.
drawn(objs) == SelectSeq(objs, LAMBDA obj : ~obj.isHidden)

\* ================================================================== claims
current == [textObjects |-> textObjects, history |-> history, future |-> future]

\* The layer of objs with this id (the first one).
layerOf(objs, id) == objs[FindIndex(objs, id)]

\* C1: after a run of N mutating operations (AddLayer, UpdateLayerProperty with
\* history, DeleteLayer, ToggleHidden, ToggleLocked, ReorderLayer, a confirmed
\* ApplyTemplate, a complete drag gesture) followed by N Undo calls, the layer
\* sequence is the one before the first operation of the run.
C1_UndoRestoresScene ==
    (nOps >= 1 /\ nUndo = nOps /\ ~pointerDown) => textObjects = base

\* C2: from a state with a non-empty past stack, Undo followed at once by Redo
\* leaves the layer sequence, the past stack and the future stack as they were:
\* in the state an Undo has produced, Redo gives back the state Undo started from.
C2_UndoThenRedo ==
    (last.op = "Undo" /\ Len(before.history) > 0) =>
        handleRedo(textObjects, history, future) =
            [textObjects |-> before.textObjects, history |-> before.history,
             future |-> before.future]

C2_Witness ==
    /\ last.op = "Undo"
    /\ Len(before.history) > 0
    /\ before.textObjects # textObjects

\* C3: an operation that calls pushHistory leaves the future stack empty, also
\* after one or more Undo calls, and a Redo issued next changes neither the
\* layer sequence nor either stack.
C3_PushDiscardsRedo ==
    last.pushed =>
        /\ future = <<>>
        /\ handleRedo(textObjects, history, future) = current

C3_Witness ==
    /\ last.pushed
    /\ Len(before.future) > 0

\* C4: the past stack never holds more than 20 snapshots; a pushHistory that
\* finds 20 stored drops the oldest, keeps the 19 newer ones in their order and
\* puts the new snapshot on top.
C4_PastCapped ==
    /\ Len(history) <= HistoryCap
    /\ (last.pushed /\ Len(before.history) = HistoryCap) =>
            /\ Len(history) = HistoryCap
            /\ SubSeq(history, 1, HistoryCap - 1) = Tail(before.history)
            /\ history[HistoryCap] = before.textObjects

C4_Witness ==
    /\ last.pushed
    /\ Len(before.history) = HistoryCap
    /\ before.history[1] # before.history[2]

\* C5: the selection is empty or the id of a layer of the layer sequence that
\* is neither locked nor hidden.
C5_SelectionValid ==
    \/ selectedTextId = NoId
    \/ \E i \in 1..Len(textObjects) :
          /\ textObjects[i].id = selectedTextId
          /\ ~textObjects[i].isLocked
          /\ ~textObjects[i].isHidden

\* The radius of the handler the canvas is wired to.
hitRadius == IF hostProps THEN BridgeHitRadius ELSE HitRadius

\* The positions of the unlocked, visible layers whose anchor the pointer of
\* the last event was within the hit radius of, when the event started.
selectableUnderPointer ==
    {i \in 1..Len(before.textObjects) :
        /\ ~before.textObjects[i].isLocked
        /\ ~before.textObjects[i].isHidden
        /\ Within(before.textObjects[i], last.px, last.py, hitRadius)}

\* C6: a pointer-down with one or more unlocked, visible layers within the hit
\* radius selects the topmost of them (the last in the layer sequence).
C6_TopmostSelectableHit ==
    (last.op = "MouseDown" /\ selectableUnderPointer # {}) =>
        \E i \in selectableUnderPointer :
            /\ \A j \in selectableUnderPointer : j <= i
            /\ selectedTextId = before.textObjects[i].id

\* C7: a pointer-down never selects or marks dragging a hidden layer, and the
\* renderer never draws one.
C7_HiddenNeverHit ==
    /\ \A i \in 1..Len(drawn(textObjects)) : ~drawn(textObjects)[i].isHidden
    /\ last.op = "MouseDown" =>
          \A i \in 1..Len(textObjects) :
              textObjects[i].isHidden =>
                  /\ selectedTextId # textObjects[i].id
                  /\ (textObjects[i].isDragging => before.textObjects[i].isDragging)

\* C8: with a locked layer selected, neither a pointer-move nor an arrow key
\* (with or without the modifier) changes that layer's x or y.
C8_LockedStaysPut ==
    LET a == FindIndex(before.textObjects, before.selectedTextId) IN
    (/\ last.op \in {"MouseMove"} \cup ArrowKeys
     /\ a # 0
     /\ before.textObjects[a].isLocked) =>
        /\ textObjects[a].x = before.textObjects[a].x
        /\ textObjects[a].y = before.textObjects[a].y

\* The offset the pointer-down recorded, in the component whose handlers the
\* canvas is wired to.
recordedOffset == IF hostProps THEN parentDragOffset ELSE dragOffset

\* C9: during a drag, a pointer-move whose unsnapped x (pointer minus offset)
\* is at distance at most 15 from 640 stores x = 640, and one at a greater
\* distance stores the unsnapped x (628 -> 640, 625 -> 640, 624 -> 624, 620 -> 620).
C9_SnapWithin15 ==
    LET a == FindIndex(before.textObjects, before.selectedTextId)
        unsnappedX == last.px - recordedOffset[1]
    IN  (/\ last.op = "MouseMove"
         /\ a # 0
         /\ before.textObjects[a].isDragging
         /\ ~before.textObjects[a].isLocked) =>
            textObjects[a].x =
                IF Abs(unsnappedX - CenterX) <= SNAP_THRESHOLD THEN CenterX ELSE unsnappedX

\* C10: a confirmed ApplyTemplate of a template with k >= 1 layer definitions
\* yields exactly k layers in the template's order, with pairwise distinct ids
\* none of which is an id of a layer of the scene before, and selects the first.
C10_TemplateReplacesScene ==
    (last.op = "ApplyTemplate" /\ last.pushed) =>
        LET defs == last.px.objects IN
        /\ Len(textObjects) = Len(defs)
        /\ \A i \in 1..Len(defs) :
              \A f \in DOMAIN defs[i] : textObjects[i][f] = defs[i][f]
        /\ \A i \in 1..Len(textObjects) : textObjects[i].id \notin Ids(before.textObjects)
        /\ \A i, j \in 1..Len(textObjects) :
              textObjects[i].id = textObjects[j].id => i = j
        /\ selectedTextId = textObjects[1].id

C10_Witness ==
    /\ last.op = "ApplyTemplate"
    /\ last.pushed
    /\ Len(textObjects) > 1
    /\ \E i \in 1..Len(before.textObjects) : before.textObjects[i].id[1] = "t_"

\* The four pieces of state the operations are specified over are what they
\* were when the last event started.
Untouched ==
    /\ textObjects = before.textObjects
    /\ selectedTextId = before.selectedTextId
    /\ history = before.history
    /\ future = before.future

\* C11: updateObject, onDelete, onToggleHidden, onToggleLock and onMoveLayer
\* called with an id that no layer has leave the layer sequence, the selection,
\* the past stack and the future stack unchanged.
C11_UnknownIdNoOp ==
    (/\ last.op \in {"updateObject", "ToggleHidden", "ToggleLock", "DeleteLayer", "MoveLayer"}
     /\ last.id \notin Ids(before.textObjects)) => Untouched

\* C12: Undo with an empty past stack, and Redo with an empty future stack,
\* change nothing: layer sequence, selection and both stacks stay as they were.
C12_EmptyStackNoOp ==
    /\ (last.op = "Undo" /\ before.history = <<>>) => Untouched
    /\ (last.op = "Redo" /\ before.future = <<>>) => Untouched

C12_Witness ==
    /\ last.op = "Undo"
    /\ before.history = <<>>
    /\ before.future # <<>>
    /\ selectedTextId # NoId

\* C13: deleting an existing layer (from the layer panel or with the Delete
\* key) removes exactly that layer and keeps the others in their order; the
\* selection becomes empty when the deleted layer was the selected one and is
\* unchanged when another layer was selected.
C13_DeleteRemovesOne ==
    (last.op \in {"DeleteLayer", "KeyDelete"} /\ last.id \in Ids(before.textObjects)) =>
        /\ Len(textObjects) = Len(before.textObjects) - 1
        /\ textObjects = SelectSeq(before.textObjects, LAMBDA obj : obj.id # last.id)
        /\ selectedTextId = IF before.selectedTextId = last.id
                            THEN NoId
                            ELSE before.selectedTextId

\* C14: adding a layer appends exactly one layer, last in the sequence, at
\* (640, 360), unlocked, visible and not dragging; the earlier layers are
\* unchanged, the new layer is the selection, and one snapshot is pushed, so
\* that a single Undo gives back the layer sequence without the new layer.
C14_AddLayerAppends ==
    last.op = "AddTextLayer" =>
        LET n == Len(before.textObjects) IN
        /\ Len(textObjects) = n + 1
        /\ SubSeq(textObjects, 1, n) = before.textObjects
        /\ textObjects[n + 1].x = CenterX
        /\ textObjects[n + 1].y = CenterY
        /\ ~textObjects[n + 1].isLocked
        /\ ~textObjects[n + 1].isHidden
        /\ ~textObjects[n + 1].isDragging
        /\ selectedTextId = textObjects[n + 1].id
        /\ Len(history) = IF Len(before.history) < HistoryCap
                          THEN Len(before.history) + 1
                          ELSE HistoryCap
        /\ handleUndo(textObjects, history, future).textObjects = before.textObjects

\* C15: an ApplyTemplate whose confirmation is declined changes nothing: the
\* layer sequence, the selection and both stacks are what they were.
C15_DeclinedTemplateNoOp ==
    (last.op = "ApplyTemplate" /\ ~last.pushed) => Untouched

C15_Witness ==
    /\ last.op = "ApplyTemplate"
    /\ ~last.pushed
    /\ before.future # <<>>
    /\ before.selectedTextId # NoId

\* The global defaults of the fields a template definition may omit.
GlobalDefaults ==
    [fontFamily |-> "Cairo", shadowBlur |-> 10, shadowColor |-> "rgba(0,0,0,0.8)",
     opacity |-> 10, lineHeight |-> 12, isLocked |-> FALSE, isHidden |-> FALSE,
     align |-> "center"]

\* C16: ApplyTemplate builds one layer per definition of the template; every
\* field the definition provides keeps the provided value, and the fields it
\* omits among family, shadow, opacity, line height, locked, hidden and
\* alignment take the global default.
C16_TemplateKeepsProvided ==
    (last.op = "ApplyTemplate" /\ last.pushed) =>
        LET defs == last.px.objects IN
        /\ Len(textObjects) = Len(defs)
        /\ \A i \in 1..Len(defs) :
              /\ \A f \in DOMAIN defs[i] : textObjects[i][f] = defs[i][f]
              /\ \A f \in (DOMAIN GlobalDefaults) \ (DOMAIN defs[i]) :
                    textObjects[i][f] = GlobalDefaults[f]

\* C17: onMoveLayer exchanges the layer with its neighbour in paint order (up:
\* the next higher position, down: the next lower one) and leaves every other
\* position unchanged; for the top layer moved up and the bottom layer moved
\* down it changes neither the layer sequence nor the past and future stacks.
\* The set of layers is the same in all cases.
C17_ReorderSwapsNeighbour ==
    (last.op = "MoveLayer" /\ last.id \in Ids(before.textObjects)) =>
        LET old == before.textObjects
            i == FindIndex(old, last.id)
            j == i + last.px
        IN  /\ Len(textObjects) = Len(old)
            /\ {textObjects[k] : k \in 1..Len(textObjects)} = {old[k] : k \in 1..Len(old)}
            /\ IF j \in 1..Len(old)
               THEN /\ textObjects[i] = old[j]
                    /\ textObjects[j] = old[i]
                    /\ \A k \in 1..Len(old) : k \notin {i, j} => textObjects[k] = old[k]
               ELSE /\ textObjects = old
                    /\ history = before.history
                    /\ future = before.future

\* C18: the operations that only change the selection (Escape, a pointer-down
\* that hits no layer, selecting a row of the layer panel) leave the layer
\* sequence, the past stack and the future stack unchanged.
C18_SelectionOnlyKeepsHistory ==
    (\/ last.op \in {"Escape", "PanelSelect"}
     \/ (last.op = "MouseDown" /\ last.id = NoId)) =>
        /\ textObjects = before.textObjects
        /\ history = before.history
        /\ future = before.future

C20_DragIsOneSnapshot ==
    /\ (last.op = "MouseDown" /\ last.id # NoId) =>
          /\ Len(history) = IF Len(before.history) < HistoryCap
                            THEN Len(before.history) + 1
                            ELSE HistoryCap
          /\ history[Len(history)] = before.textObjects
    /\ last.op \in {"MouseMove", "MouseUp"} =>
          /\ history = before.history
          /\ future = before.future
    /\ (last.op = "MouseUp" /\ nOps = 1 /\ nUndo = 0) =>
          handleUndo(textObjects, history, future).textObjects = base

\* C29: the past stack and the future stack together never hold more than 20
\* snapshots; an Undo that finds a snapshot moves one from past to future, a
\* Redo that finds one moves one from future to past, and both keep the sum.
C29_StacksTogetherCapped ==
    /\ Len(history) + Len(future) <= 20
    /\ last.op \in {"Undo", "Redo"} =>
          Len(history) + Len(future) = Len(before.history) + Len(before.future)
    /\ (last.op = "Undo" /\ before.history # <<>>) =>
          /\ Len(history) = Len(before.history) - 1
          /\ Len(future) = Len(before.future) + 1
    /\ (last.op = "Redo" /\ before.future # <<>>) =>
          /\ Len(history) = Len(before.history) + 1
          /\ Len(future) = Len(before.future) - 1

C29_Witness ==
    /\ last.op = "Redo"
    /\ before.future # <<>>
    /\ Len(history) = 20

\* The value a pointer-move stores for an unsnapped coordinate v: the centre
\* line within the threshold, v outside it (either at the threshold itself).
StoredFor(v, centre, stored) ==
    /\ Abs(v - centre) < SNAP_THRESHOLD => stored = centre
    /\ Abs(v - centre) > SNAP_THRESHOLD => stored = v
    /\ stored \in {v, centre}

\* C25: a pointer-move while the selected layer is dragging and unlocked sets
\* that layer's x and y to pointer minus recorded offset, each axis snapped to
\* its centre line on its own, and changes no other layer, no other field, not
\* the selection and not the stacks; a pointer-move with no layer selected or
\* the selected layer not dragging changes nothing.
C25_MoveFollowsPointer ==
    LET a == FindIndex(before.textObjects, before.selectedTextId) IN
    last.op = "MouseMove" =>
        /\ selectedTextId = before.selectedTextId
        /\ history = before.history
        /\ future = before.future
        /\ (a = 0 \/ ~before.textObjects[a].isDragging) =>
              textObjects = before.textObjects
        /\ (a # 0 /\ before.textObjects[a].isDragging /\ ~before.textObjects[a].isLocked) =>
              /\ textObjects = moveTo(before.textObjects, before.selectedTextId,
                                      textObjects[a].x, textObjects[a].y)
              /\ StoredFor(last.px - recordedOffset[1], CenterX, textObjects[a].x)
              /\ StoredFor(last.py - recordedOffset[2], CenterY, textObjects[a].y)

\* C26: after a pointer-up or a pointer-leave, whatever the state before it, no
\* layer is dragging and the snap state is empty; every layer keeps its other
\* fields and its place, and the selection and both stacks are as before.
C26_PointerUpClearsDrag ==
    last.op \in {"MouseUp", "MouseLeave"} =>
        /\ \A i \in 1..Len(textObjects) : ~textObjects[i].isDragging
        /\ snapLines = {}
        /\ Len(textObjects) = Len(before.textObjects)
        /\ \A i \in 1..Len(textObjects) :
              textObjects[i] = [before.textObjects[i] EXCEPT !.isDragging = FALSE]
        /\ selectedTextId = before.selectedTextId
        /\ history = before.history
        /\ future = before.future

C26_Witness ==
    /\ last.op \in {"MouseUp", "MouseLeave"}
    /\ \E i \in 1..Len(before.textObjects) :
          /\ before.textObjects[i].isDragging
          /\ before.textObjects[i].id # before.selectedTextId

\* The positions of the layers of objs that are marked dragging.
Dragging(objs) == {i \in 1..Len(objs) : objs[i].isDragging}

\* C27: at most one layer of the layer sequence is marked dragging, and a
\* layer that is marked dragging is the selected layer.
C27_OneDraggingSelected ==
    /\ Cardinality(Dragging(textObjects)) <= 1
    /\ \A i \in Dragging(textObjects) : textObjects[i].id = selectedTextId

\* C30: with no pointer-down outstanding no layer is marked dragging, also
\* after an Undo or Redo during or after a drag, and no snapshot of the past
\* or the future stack holds a layer marked dragging.
C30_DraggingOnlyInGesture ==
    /\ ~pointerDown => Dragging(textObjects) = {}
    /\ \A k \in 1..Len(history) : Dragging(history[k]) = {}
    /\ \A k \in 1..Len(future) : Dragging(future[k]) = {}

\* The past stack after pushHistory() in the state before the last event.
pushedBefore == pushHistory(before.history, before.future, before.textObjects).history

\* C21: a slider gesture (font size, rotation, line height, highlight scale) of
\* several consecutive change events adds one snapshot to the past stack, the
\* layer sequence at its first change event, and none at the later ones.
C21_ScrubIsOneSnapshot ==
    (last.op = "UpdateTextProps" /\ last.px \in SliderKeys) =>
        /\ last.py = 1 => history = pushedBefore
        /\ last.py = 0 => history = before.history

\* C22: after a change made by an editor of the property panel (the first
\* change event of an interaction), the top of the past stack is the layer
\* sequence before the change.
C22_EditorsRecordHistory ==
    (last.op = "UpdateTextProps" /\ last.py = 1) =>
        /\ history # <<>>
        /\ history[Len(history)] = before.textObjects
        /\ handleUndo(textObjects, history, future).textObjects = before.textObjects

\* C24: a request for an image that completes without one (null or empty)
\* leaves the background reference, and so the background the canvas paints,
\* as it was; one that completes with an image makes that image the
\* background reference, and it is the one background the canvas paints.
C24_BackgroundKept ==
    last.op = "GenCompletes" =>
        /\ last.px \in {Null, ""} =>
              /\ generatedImage = before.generatedImage
              /\ background(generatedImage) = background(before.generatedImage)
        /\ last.px \notin {Null, ""} =>
              /\ generatedImage = last.px
              /\ background(generatedImage) = last.px

C24_Witness ==
    /\ last.op = "GenCompletes"
    /\ last.px \in {Null, ""}
    /\ before.generatedImage \notin {Null, ""}
    /\ generatedImage = before.generatedImage

\* C23: when the suggestion list or the selection changes (a new list, a
\* selection in the layer panel, a pointer-down, Escape), a layer's text
\* changes only if it is the selected layer and its text was a placeholder,
\* and then to the hook with the highest score; a selected layer with another
\* text and every layer that is not selected keep their text.
C23_AutoFillOnlyPlaceholder ==
    last.op \in {"SetHooks", "PanelSelect", "MouseDown", "Escape"} =>
        /\ Len(textObjects) = Len(before.textObjects)
        /\ \A i \in 1..Len(textObjects) :
              textObjects[i].text # before.textObjects[i].text =>
                  /\ textObjects[i].id = selectedTextId
                  /\ before.textObjects[i].text \in {"Catchy title", "nass", ""}
                  /\ \E k \in 1..Len(suggestedHooks) :
                        /\ textObjects[i].text = suggestedHooks[k].hook
                        /\ \A j \in 1..Len(suggestedHooks) :
                              suggestedHooks[j].score <= suggestedHooks[k].score

C23_Witness ==
    /\ last.op = "PanelSelect"
    /\ \E i \in 1..Len(textObjects) :
          /\ textObjects[i].id = selectedTextId
          /\ textObjects[i].text # before.textObjects[i].text
    /\ \E i \in 1..Len(textObjects) :
          /\ textObjects[i].id # selectedTextId
          /\ textObjects[i].text = before.textObjects[i].text

\* The word without the punctuation at its end.
RECURSIVE stripTrailing(_)
stripTrailing(w) ==
    IF w # <<>> /\ w[Len(w)] \in {".", ",", "!", "QM"}
    THEN stripTrailing(Front(w))
    ELSE w

\* C28: every word of a line of a layer is drawn at fontSize x highlightScale,
\* in the highlight colour, exactly when the word without its trailing
\* punctuation is one of the layer's highlight words, and at fontSize in the
\* layer's colour otherwise; the pen advances by the word's width at that
\* size; and a click on a word in the editor adds the word without its
\* trailing punctuation to the highlight words, or removes it when it is there.
C28_HighlightRule ==
    /\ \A i \in 1..Len(textObjects) :
          LET obj == textObjects[i] IN
          \A l \in 1..Len(obj.text) :
              \A k \in 1..Len(obj.text[l]) :
                  LET w == obj.text[l][k]
                      d == drawLine(obj, obj.text[l])[k]
                      emphasized == \E n \in 1..Len(obj.highlightWords) :
                                        obj.highlightWords[n] = stripTrailing(w)
                  IN  /\ d.size = IF emphasized THEN obj.fontSize * obj.highlightScale
                                                ELSE obj.fontSize * 10
                      /\ d.fillStyle = IF emphasized THEN obj.highlightColor
                                                     ELSE obj.color
                      /\ d.drawXAfter - d.drawX = (Len(w) + 1) * d.size
    /\ last.op = "ToggleHighlight" =>
          LET a == FindIndex(before.textObjects, before.selectedTextId)
              old == before.textObjects[a].highlightWords
              sw == stripTrailing(last.px)
          IN  textObjects[a].highlightWords =
                  IF \E n \in 1..Len(old) : old[n] = sw
                  THEN SelectSeq(old, LAMBDA x : x # sw)
                  ELSE Append(old, sw)

====
